---- MODULE Spec2Model ----
(***************************************************************************)
(* The overlay-listener reconciliation of scrypted-osd-manager             *)
(* (src/src/utils.ts): getOverlaySettings, getOverlay, listenersIntevalFn *)
(* and parseOverlayData as a state machine over the settings snapshot, the *)
(* device registry and the currentListeners map.                           *)
(***************************************************************************)
EXTENDS Integers, Sequences, FiniteSets, TLC

VARIABLES
    settings,          \* per overlay id, the values of its five setting keys
    registry,          \* sdk.systemManager: device id -> device
    currentListeners,  \* the ListenersMap the passes share
    live,              \* the listener handles registered and not yet removed
    calls,             \* the calls made by the last step, in order
    threw,             \* the last pass ended by an exception
    since,             \* what changed since the last pass
    lastStep,          \* the step that led to this state
    lastResolved,      \* per overlay id, what the last pass resolved
    fmtInput,          \* the arguments of a call of parseOverlayData
    fmtResult,         \* what that call returned, or that it threw
    settingsView,      \* the last call of getOverlaySettings and what it returned
    inFlight,          \* the events emitted whose callback has not run yet
    logged             \* per overlay id, the device the last pass logged as not found

vars == <<settings, registry, currentListeners, live, calls, threw, since, lastStep,
          lastResolved, fmtInput, fmtResult, settingsView, inFlight, logged>>

fmtVars == <<fmtInput, fmtResult>>

\* the variables the passes and the user's changes leave alone
otherVars == <<fmtInput, fmtResult, settingsView, inFlight, logged>>

----------------------------------------------------------------------------
(* Values.  Identifiers and enum members are strings; a missing one is     *)
(* Undef.  Values of type any are tagged records.                          *)

Undef == "undefined"

Undefined == [t |-> "undefined"]
Str(s) == [t |-> "string", s |-> s]
Num(m) == [t |-> "number", milli |-> m]
NaN == [t |-> "NaN"]

\* OverlayType
OverlayTypes == {"Text", "Device", "FaceDetection"}

\* ListenerType
ListenerTypes == {"Face", "Humidity", "Temperature"}

\* the prefix of the setting keys getOverlay reads
osdManagerPrefix == "osdManager"

\* the overlay ids of the camera, in the order a pass visits them
OverlayIds == <<"1">>

AllIds == {"1", "2"}

\* the number of sensor devices that may be in the registry
NumDevices == 2

\* the sensor devices that may be in the registry, and the camera itself (props.id)
DeviceName(i) == "dev" \o ToString(i)
DeviceIds == {DeviceName(i) : i \in 1..NumDevices}
CameraId == "cam"

\* the interface sets a sensor device may expose while present: the first device
\* any, the others a thermometer
InterfaceSets(d) ==
    IF d = DeviceName(1) THEN SUBSET {"Thermometer", "HumiditySensor"}
    ELSE {{"Thermometer"}}

\* the settings values a user may store
TextValues == {Str(<<"Hello">>)}
RegexValues == {Str(<<"${value}", " ", "${unit}">>)}
MaxDecimalsValues == {Num(2000)}

NoDevice == [present |-> FALSE, interfaces |-> {}, temperature |-> Undefined,
             humidity |-> Undefined, temperatureUnit |-> Undefined, name |-> Undef]

\* a sensor device as the registry holds it; its readings are fixed per device
Sensor(d, ifs) ==
    [ present |-> TRUE, interfaces |-> ifs,
      temperature |-> IF "Thermometer" \in ifs
                        THEN Num(IF d = DeviceName(1) THEN 21456 ELSE 19000) ELSE Undefined,
      humidity |-> IF "HumiditySensor" \in ifs THEN Num(40000) ELSE Undefined,
      temperatureUnit |-> IF "Thermometer" \in ifs THEN Str(<<"C">>) ELSE Undefined,
      name |-> d ]

Camera ==
    [ present |-> TRUE, interfaces |-> {"ObjectDetection", "VideoTextOverlays"},
      temperature |-> Undefined, humidity |-> Undefined,
      temperatureUnit |-> Undefined, name |-> CameraId ]

getDeviceById(reg, id) == IF id \in DOMAIN reg THEN reg[id] ELSE NoDevice

----------------------------------------------------------------------------
(* getOverlayKeys and getOverlay                                           *)

getOverlayKeys(overlayId) ==
    [ textKey |-> <<"overlay", overlayId, "text">>,
      typeKey |-> <<"overlay", overlayId, "type">>,
      regexKey |-> <<"overlay", overlayId, "regex">>,
      deviceKey |-> <<"overlay", overlayId, "device">>,
      maxDecimalsKey |-> <<"overlay", overlayId, "maxDecimals">> ]

\* settingsByKey[`${osdManagerPrefix}:${key}`]?.value
settingValue(stg, key, missing) ==
    LET prefixed == <<osdManagerPrefix>> \o key
    IN  IF /\ prefixed[1] = "osdManager" /\ prefixed[2] = "overlay"
           /\ prefixed[3] \in DOMAIN stg /\ prefixed[4] \in DOMAIN stg[prefixed[3]]
        THEN stg[prefixed[3]][prefixed[4]] ELSE missing

getOverlay(stg, overlayId) ==
    LET keys == getOverlayKeys(overlayId)
        type == settingValue(stg, keys.typeKey, Undef)
    IN  [ device |-> settingValue(stg, keys.deviceKey, Undef),
          type |-> IF type = Undef THEN "Text" ELSE type,
          regex |-> settingValue(stg, keys.regexKey, Undefined),
          text |-> settingValue(stg, keys.textKey, Undefined),
          maxDecimals |-> settingValue(stg, keys.maxDecimalsKey, Undefined) ]

----------------------------------------------------------------------------
(* getOverlaySettings                                                      *)

\* storage.getItem(key)
getItem(storage, key) ==
    IF key[1] = "overlay" /\ key[2] \in DOMAIN storage /\ key[3] \in DOMAIN storage[key[2]]
    THEN storage[key[2]][key[3]]
    ELSE IF key[3] \in {"type", "device"} THEN Undef ELSE Undefined

\* `Overlay ${overlayId}`
overlayName(overlayId) == <<"Overlay ", overlayId>>

\* lines 70-80
typeSetting(overlayId, type) ==
    [ key |-> getOverlayKeys(overlayId).typeKey, title |-> "Overlay type",
      type |-> "string", subgroup |-> overlayName(overlayId), value |-> type,
      immediate |-> TRUE ]

\* lines 83-89
textSetting(storage, overlayId) ==
    [ key |-> getOverlayKeys(overlayId).textKey, title |-> "Text",
      type |-> "string", subgroup |-> overlayName(overlayId),
      value |-> getItem(storage, getOverlayKeys(overlayId).textKey),
      immediate |-> FALSE ]

\* lines 92-100: storage.getItem(regexKey) || '${value} ${unit}'
regexSetting(storage, overlayId) ==
    LET stored == getItem(storage, getOverlayKeys(overlayId).regexKey)
    IN  [ key |-> getOverlayKeys(overlayId).regexKey, title |-> "Value regex",
          type |-> "string", subgroup |-> overlayName(overlayId),
          value |-> IF stored.t = "string" /\ stored.s # <<>> THEN stored
                    ELSE Str(<<"${value}", " ", "${unit}">>),
          immediate |-> FALSE ]

\* lines 104-112
deviceSetting(storage, overlayId) ==
    [ key |-> getOverlayKeys(overlayId).deviceKey, title |-> "Device",
      type |-> "device", subgroup |-> overlayName(overlayId),
      value |-> getItem(storage, getOverlayKeys(overlayId).deviceKey),
      immediate |-> TRUE ]

\* lines 114-120: storage.getItem(maxDecimalsKey) ?? 1
maxDecimalsSetting(storage, overlayId) ==
    LET stored == getItem(storage, getOverlayKeys(overlayId).maxDecimalsKey)
    IN  [ key |-> getOverlayKeys(overlayId).maxDecimalsKey, title |-> "Max decimals",
          type |-> "number", subgroup |-> overlayName(overlayId),
          value |-> IF stored.t = "undefined" THEN Num(1000) ELSE stored,
          immediate |-> FALSE ]

\* overlaySettings with the regex setting pushed whatever the type
overlaySettingsRegexAlways(storage, overlayId) ==
    LET stored == getItem(storage, getOverlayKeys(overlayId).typeKey)
        type == IF stored = Undef THEN "Text" ELSE stored
    IN  <<typeSetting(overlayId, type)>>
        \o (IF type = "Text" THEN <<textSetting(storage, overlayId)>> ELSE <<>>)
        \o (IF type = "Device"
            THEN <<deviceSetting(storage, overlayId), regexSetting(storage, overlayId),
                   maxDecimalsSetting(storage, overlayId)>>
            ELSE <<regexSetting(storage, overlayId)>>)

\* lines 64-124: the settings pushed for one overlay id
overlaySettings(storage, overlayId) ==
    LET stored == getItem(storage, getOverlayKeys(overlayId).typeKey)
        type == IF stored = Undef THEN "Text" ELSE stored
    IN  <<typeSetting(overlayId, type)>>
        \o (IF type = "Text" THEN <<textSetting(storage, overlayId)>> ELSE <<>>)
        \o (IF type = "Device"
            THEN <<deviceSetting(storage, overlayId), regexSetting(storage, overlayId),
                   maxDecimalsSetting(storage, overlayId)>>
            ELSE IF type = "FaceDetection"
            THEN <<regexSetting(storage, overlayId)>>
            ELSE <<>>)

RECURSIVE getOverlaySettings(_, _)
getOverlaySettings(storage, overlayIds) ==
    IF overlayIds = <<>> THEN <<>>
    ELSE overlaySettings(storage, Head(overlayIds))
         \o getOverlaySettings(storage, Tail(overlayIds))

----------------------------------------------------------------------------
(* listenersIntevalFn                                                      *)

\* an EventListenerRegister, with what its callback closes over
NoHandle == [id |-> 0, device |-> Undef, iface |-> Undef, overlayId |-> Undef,
             listenerType |-> Undef]
NoListener == [defined |-> FALSE, listenerType |-> Undef, device |-> Undef,
               listener |-> NoHandle]

\* the calls a pass or a callback makes on its collaborators
RemoveListenerCall(overlayId, h) ==
    [ op |-> "removeListener", overlayId |-> overlayId, handle |-> h,
      listenerType |-> Undef, data |-> Undefined, noLog |-> FALSE ]
ListenCall(overlayId, h) ==
    [ op |-> "listen", overlayId |-> overlayId, handle |-> h,
      listenerType |-> Undef, data |-> Undefined, noLog |-> FALSE ]
UpdateCall(overlayId, listenerType, data, noLog) ==
    [ op |-> "onUpdateFn", overlayId |-> overlayId, handle |-> NoHandle,
      listenerType |-> listenerType, data |-> data, noLog |-> noLog ]

\* ResolveListener with the humidity capability looked at first
ResolveListenerHumidityFirst(overlay, reg) ==
    LET none == [listenerType |-> Undef, listenInterface |-> Undef, deviceId |-> Undef]
    IN  IF overlay.type = "Device"
        THEN LET realDevice == getDeviceById(reg, overlay.device)
             IN  IF realDevice.present
                 THEN IF "HumiditySensor" \in realDevice.interfaces
                      THEN [ listenerType |-> "Humidity",
                             listenInterface |-> "HumiditySensor",
                             deviceId |-> overlay.device ]
                      ELSE IF "Thermometer" \in realDevice.interfaces
                      THEN [ listenerType |-> "Temperature",
                             listenInterface |-> "Thermometer",
                             deviceId |-> overlay.device ]
                      ELSE none
                 ELSE none
        ELSE IF overlay.type = "FaceDetection"
        THEN [ listenerType |-> "Face", listenInterface |-> "ObjectDetection",
               deviceId |-> CameraId ]
        ELSE none

\* ResolveListener without the test that the device was found
ResolveListenerUnchecked(overlay, reg) ==
    LET none == [listenerType |-> Undef, listenInterface |-> Undef, deviceId |-> Undef]
    IN  IF overlay.type = "Device"
        THEN LET realDevice == getDeviceById(reg, overlay.device)
             IN  IF "Thermometer" \in realDevice.interfaces \/ ~realDevice.present
                 THEN [ listenerType |-> "Temperature",
                        listenInterface |-> "Thermometer",
                        deviceId |-> overlay.device ]
                 ELSE IF "HumiditySensor" \in realDevice.interfaces
                 THEN [ listenerType |-> "Humidity",
                        listenInterface |-> "HumiditySensor",
                        deviceId |-> overlay.device ]
                 ELSE none
        ELSE IF overlay.type = "FaceDetection"
        THEN [ listenerType |-> "Face", listenInterface |-> "ObjectDetection",
               deviceId |-> CameraId ]
        ELSE none

\* lines 174-196: the listener type, interface and device the overlay asks for
ResolveListener(overlay, reg) ==
    LET none == [listenerType |-> Undef, listenInterface |-> Undef, deviceId |-> Undef]
    IN  IF overlay.type = "Device"
        THEN LET realDevice == getDeviceById(reg, overlay.device)
             IN  IF realDevice.present
                 THEN IF "Thermometer" \in realDevice.interfaces
                      THEN [ listenerType |-> "Temperature",
                             listenInterface |-> "Thermometer",
                             deviceId |-> overlay.device ]
                      ELSE IF "HumiditySensor" \in realDevice.interfaces
                      THEN [ listenerType |-> "Humidity",
                             listenInterface |-> "HumiditySensor",
                             deviceId |-> overlay.device ]
                      ELSE none
                 ELSE none
        ELSE IF overlay.type = "FaceDetection"
        THEN [ listenerType |-> "Face", listenInterface |-> "ObjectDetection",
               deviceId |-> CameraId ]
        ELSE none

\* line 190: the device ids the pass logs as not found
NotFoundLog(overlay, reg) ==
    IF overlay.type = "Device" /\ ~getDeviceById(reg, overlay.device).present
    THEN <<overlay.device>> ELSE <<>>

\* line 200
DifferentType(currentListener, listenerType) ==
    ~currentListener.defined \/ currentListener.listenerType # listenerType

\* DifferentDevice without the comparison of the device stamp
DifferentDeviceAlways(currentListener, overlay) ==
    overlay.type = "Device"

\* line 201
DifferentDevice(currentListener, overlay) ==
    IF overlay.type = "Device" THEN currentListener.device # overlay.device ELSE FALSE

\* a listener handle no live registration and no map entry holds
NewHandle(st, overlayId, r) ==
    LET used == {h.id : h \in st.live} \cup
                {st.listeners[o].listener.id : o \in DOMAIN st.listeners}
        id == CHOOSE n \in 1..(2 * Cardinality(AllIds) + 1) :
                  n \notin used /\ \A k \in 1..(n - 1) : k \in used
    IN  [ id |-> id, device |-> r.deviceId, iface |-> r.listenInterface,
          overlayId |-> overlayId, listenerType |-> r.listenerType ]

\* RemoveCurrent without the call of removeListener
RemoveCurrentNever(st, overlayId) == st

\* line 206 and line 231: currentListener?.listener && currentListener.listener.removeListener()
RemoveCurrent(st, overlayId) ==
    LET currentListener == st.listeners[overlayId]
    IN  IF currentListener.defined
        THEN [st EXCEPT !.live = @ \ {currentListener.listener},
                        !.calls = Append(@, RemoveListenerCall(overlayId,
                                                      currentListener.listener))]
        ELSE st

\* lines 214-216: realDevice.listen(listenInterface, callback)
Listen(st, overlayId, h) ==
    [st EXCEPT !.live = @ \cup {h}, !.calls = Append(@, ListenCall(overlayId, h))]

\* PushCurrent without the push
PushCurrentNever(st, overlayId, listenerType, listenInterface, realDevice) == st

\* lines 218-222: the device's current value is pushed at once
PushCurrent(st, overlayId, listenerType, listenInterface, realDevice) ==
    IF listenInterface = "Thermometer"
    THEN [st EXCEPT !.calls = Append(@, UpdateCall(overlayId, listenerType,
                                                   realDevice.temperature, FALSE))]
    ELSE IF listenInterface = "HumiditySensor"
    THEN [st EXCEPT !.calls = Append(@, UpdateCall(overlayId, listenerType,
                                                   realDevice.humidity, FALSE))]
    ELSE st

\* StartListener with the new listener registered before the old one is removed
StartListenerListenFirst(st, overlayId, overlay, r, reg) ==
    LET realDevice == getDeviceById(reg, r.deviceId)
    IN  IF ~realDevice.present
        THEN [st EXCEPT !.threw = TRUE]
        ELSE LET newListener == NewHandle(st, overlayId, r)
                 s1 == Listen(st, overlayId, newListener)
                 s2 == RemoveCurrent(s1, overlayId)
                 s3 == PushCurrent(s2, overlayId, r.listenerType,
                                   r.listenInterface, realDevice)
             IN  [s3 EXCEPT !.listeners[overlayId] =
                     [ defined |-> TRUE, listenerType |-> r.listenerType,
                       device |-> overlay.device, listener |-> newListener ]]

\* lines 203-229: replace the listener of the overlay
StartListener(st, overlayId, overlay, r, reg) ==
    LET realDevice == getDeviceById(reg, r.deviceId)
    IN  IF ~realDevice.present
        THEN [st EXCEPT !.threw = TRUE]      \* realDevice.name of undefined
        ELSE LET s1 == RemoveCurrent(st, overlayId)
                 newListener == NewHandle(s1, overlayId, r)
                 s2 == Listen(s1, overlayId, newListener)
                 s3 == PushCurrent(s2, overlayId, r.listenerType,
                                   r.listenInterface, realDevice)
             IN  [s3 EXCEPT !.listeners[overlayId] =
                     [ defined |-> TRUE, listenerType |-> r.listenerType,
                       device |-> overlay.device, listener |-> newListener ]]

\* TextOverlay without the removal of the current listener
TextOverlayKeepListener(st, overlayId, overlay) ==
    [st EXCEPT !.calls = Append(@, UpdateCall(overlayId, Undef, overlay.text, TRUE))]

\* lines 230-238: a Text overlay
TextOverlay(st, overlayId, overlay) ==
    LET s1 == RemoveCurrent(st, overlayId)
    IN  [s1 EXCEPT !.calls = Append(@, UpdateCall(overlayId, Undef, overlay.text, TRUE))]

\* ReconcileOverlay with the text pushed for every overlay that resolves no listener
ReconcileOverlayElsePush(st, overlayId, stg, reg) ==
    LET overlay == getOverlay(stg, overlayId)
        r == ResolveListener(overlay, reg)
        currentListener == st.listeners[overlayId]
        differentType == DifferentType(currentListener, r.listenerType)
        differentDevice == DifferentDevice(currentListener, overlay)
        s0 == [st EXCEPT !.resolved[overlayId] =
                  [listenerType |-> r.listenerType, deviceId |-> r.deviceId]]
    IN  IF r.listenerType # Undef
        THEN IF r.listenInterface # Undef /\ r.deviceId # Undef
                  /\ (differentType \/ differentDevice)
             THEN StartListener(s0, overlayId, overlay, r, reg)
             ELSE s0
        ELSE TextOverlay(s0, overlayId, overlay)

\* lines 168-238: the body of the loop for one overlay id
ReconcileOverlay(st, overlayId, stg, reg) ==
    LET overlay == getOverlay(stg, overlayId)
        r == ResolveListener(overlay, reg)
        currentListener == st.listeners[overlayId]
        differentType == DifferentType(currentListener, r.listenerType)
        differentDevice == DifferentDevice(currentListener, overlay)
        s0 == [st EXCEPT !.resolved[overlayId] =
                  [listenerType |-> r.listenerType, deviceId |-> r.deviceId]]
    IN  IF r.listenerType # Undef
        THEN IF r.listenInterface # Undef /\ r.deviceId # Undef
                  /\ (differentType \/ differentDevice)
             THEN StartListener(s0, overlayId, overlay, r, reg)
             ELSE s0
        ELSE IF overlay.type = "Text"
        THEN TextOverlay(s0, overlayId, overlay)
        ELSE s0

\* lines 167-239: the loop; an exception ends it
RECURSIVE Reconcile(_, _, _, _)
Reconcile(st, overlayIds, stg, reg) ==
    IF overlayIds = <<>> \/ st.threw
    THEN st
    ELSE Reconcile(ReconcileOverlay(st, Head(overlayIds), stg, reg),
                   Tail(overlayIds), stg, reg)

listenersIntevalFn(overlayIds, stg, reg, listeners, liveNow, resolvedBefore) ==
    Reconcile([listeners |-> listeners, live |-> liveNow, calls |-> <<>>,
               threw |-> FALSE, resolved |-> resolvedBefore],
              overlayIds, stg, reg)

----------------------------------------------------------------------------
(* parseOverlayData.  A string is a sequence of pieces; the placeholders   *)
(* "${value}" and "${unit}" are pieces of their own.                       *)

NumStr(m) == [t |-> "numeric string", milli |-> m]
NoDetections == [t |-> "object", hasDetections |-> FALSE, detections |-> <<>>]
ObjectsDetected(ds) == [t |-> "object", hasDetections |-> TRUE, detections |-> ds]

\* the truthiness of a value
Truthy(v) ==
    CASE v.t = "undefined" -> FALSE
      [] v.t = "string" -> v.s # <<>>
      [] v.t = "number" -> v.milli # 0
      [] v.t = "NaN" -> FALSE
      [] OTHER -> TRUE

\* Number(v)
ToNumber(v) ==
    CASE v.t = "number" -> v
      [] v.t = "numeric string" -> Num(v.milli)
      [] v.t = "string" -> IF v.s = <<>> THEN Num(0) ELSE NaN
      [] OTHER -> NaN

RECURSIVE Pow10(_)
Pow10(n) == IF n = 0 THEN 1 ELSE 10 * Pow10(n - 1)

RECURSIVE Digits(_, _)
\* the decimal digits of n, left-padded with zeros to width w
Digits(n, w) ==
    IF w = 0 THEN ""
    ELSE Digits(n \div 10, w - 1) \o ToString(n % 10)

\* Number.prototype.toFixed on a value held in thousandths
toFixed(x, fractionDigits) ==
    LET fd == ToNumber(fractionDigits)
        f == IF fd.t = "number"
                THEN IF fd.milli >= 0 THEN fd.milli \div 1000
                     ELSE -((-fd.milli) \div 1000)
                ELSE 0
        neg == x.t = "number" /\ x.milli < 0
        mag == IF neg THEN -x.milli ELSE x.milli
        n == IF f >= 3 THEN mag * Pow10(f - 3)
             ELSE (mag + (Pow10(3 - f) \div 2)) \div Pow10(3 - f)
        whole == ToString(n \div Pow10(f))
        frac == IF f = 0 THEN "" ELSE "." \o Digits(n % Pow10(f), f)
    IN  IF f < 0 \/ f > 100
        THEN [threw |-> TRUE, value |-> Undefined]          \* RangeError
        ELSE IF x.t = "NaN"
        THEN [threw |-> FALSE, value |-> Str(<<"NaN">>)]
        ELSE [threw |-> FALSE,
              value |-> Str(<<(IF neg THEN "-" ELSE "") \o whole \o frac>>)]

\* String.prototype.replace with a string pattern: the first occurrence only
Replace(s, pattern, replacement) ==
    IF \E i \in DOMAIN s : s[i] = pattern
    THEN LET i == CHOOSE k \in DOMAIN s :
                      s[k] = pattern /\ \A j \in 1..(k - 1) : s[j] # pattern
         IN  SubSeq(s, 1, i - 1) \o replacement \o SubSeq(s, i + 1, Len(s))
    ELSE s

\* v || ''
OrEmpty(v) == IF Truthy(v) THEN v.s ELSE <<>>

\* FaceLabel taking the last face detection instead of the first
FaceLabelLast(data) ==
    IF data.t = "object" /\ data.hasDetections
          /\ \E i \in DOMAIN data.detections : data.detections[i].className = "face"
    THEN LET i == CHOOSE k \in DOMAIN data.detections :
                      /\ data.detections[k].className = "face"
                      /\ \A j \in (k + 1)..Len(data.detections) :
                            data.detections[j].className # "face"
         IN  data.detections[i].label
    ELSE Undefined

\* line 255: data?.detections?.find(det => det.className === 'face')?.label
FaceLabel(data) ==
    IF data.t = "object" /\ data.hasDetections
          /\ \E i \in DOMAIN data.detections : data.detections[i].className = "face"
    THEN LET i == CHOOSE k \in DOMAIN data.detections :
                      /\ data.detections[k].className = "face"
                      /\ \A j \in 1..(k - 1) : data.detections[j].className # "face"
         IN  data.detections[i].label
    ELSE Undefined

\* lines 264-270
ApplyRegex(value, unit, overlay) ==
    IF Truthy(value)
    THEN IF overlay.regex.t # "string"
         THEN [threw |-> TRUE, text |-> Undefined]      \* regex.replace of undefined
         ELSE [threw |-> FALSE,
               text |-> Str(Replace(Replace(overlay.regex.s, "${value}", OrEmpty(value)),
                                    "${unit}", OrEmpty(unit)))]
    ELSE [threw |-> FALSE, text |-> overlay.text]

parseOverlayData(listenerType, data, overlay, reg) ==
    LET realDevice == IF overlay.device # Undef
                         THEN getDeviceById(reg, overlay.device) ELSE NoDevice
        fixed == toFixed(ToNumber(IF data.t = "undefined" THEN Num(0) ELSE data),
                         overlay.maxDecimals)
    IN  IF listenerType = "Face"
        THEN ApplyRegex(FaceLabel(data), Undefined, overlay)
        ELSE IF listenerType = "Temperature"
        THEN IF fixed.threw \/ ~realDevice.present
             THEN [threw |-> TRUE, text |-> Undefined]  \* temperatureUnit of undefined
             ELSE ApplyRegex(fixed.value, realDevice.temperatureUnit, overlay)
        ELSE IF listenerType = "Humidity"
        THEN IF fixed.threw
             THEN [threw |-> TRUE, text |-> Undefined]
             ELSE ApplyRegex(fixed.value, Str(<<"%">>), overlay)
        ELSE ApplyRegex(Undefined, Undefined, overlay)

----------------------------------------------------------------------------
(* The state machine                                                       *)

Range(seq) == {seq[i] : i \in DOMAIN seq}

NoSettings ==
    [type |-> Undef, device |-> Undef, text |-> Undefined, regex |-> Undefined,
     maxDecimals |-> Undefined]

NotResolved == [listenerType |-> Undef, deviceId |-> Undef]

NoFmtInput == [listenerType |-> Undef, data |-> Undefined, overlay |-> NoSettings]
NotRun == [threw |-> FALSE, text |-> Undefined, ran |-> FALSE]
NotViewed == [ran |-> FALSE, again |-> FALSE, overlayIds |-> <<>>, settings |-> <<>>]

\* no pass has run yet
InitMap ==
    /\ currentListeners = [o \in AllIds |-> NoListener]
    /\ live = {}
    /\ calls = <<>>
    /\ threw = FALSE
    /\ since = "other"
    /\ lastStep = "init"
    /\ lastResolved = [o \in AllIds |-> NotResolved]
    /\ settingsView = NotViewed
    /\ inFlight = {}
    /\ logged = [o \in AllIds |-> <<>>]

InitReconciler ==
    /\ settings = [o \in AllIds |-> NoSettings]
    /\ InitMap

Init ==
    /\ InitReconciler
    /\ registry = [d \in DeviceIds \cup {CameraId} |->
                      IF d = CameraId THEN Camera ELSE NoDevice]
    /\ fmtInput = NoFmtInput
    /\ fmtResult = NotRun

\* the user changes the type or the bound device of an overlay
ChangeBinding(o) ==
    /\ \/ \E v \in OverlayTypes \cup {Undef} :
            /\ v # settings[o].type
            /\ settings' = [settings EXCEPT ![o].type = v]
       \/ \E v \in DeviceIds \cup {Undef} :
            /\ v # settings[o].device
            /\ settings' = [settings EXCEPT ![o].device = v]
    /\ calls' = <<>>
    /\ since' = "other"
    /\ lastStep' = "change"
    /\ UNCHANGED <<registry, currentListeners, live, threw, lastResolved, otherVars>>

\* the user changes the template or the number of decimals of an overlay
ChangeFormat(o) ==
    /\ \/ \E v \in RegexValues \cup {Undefined} :
            /\ v # settings[o].regex
            /\ settings' = [settings EXCEPT ![o].regex = v]
       \/ \E v \in MaxDecimalsValues \cup {Undefined} :
            /\ v # settings[o].maxDecimals
            /\ settings' = [settings EXCEPT ![o].maxDecimals = v]
    /\ calls' = <<>>
    /\ since' = IF since = "none" THEN "format" ELSE since
    /\ lastStep' = "change"
    /\ UNCHANGED <<registry, currentListeners, live, threw, lastResolved, otherVars>>

\* the user changes the static text of an overlay
ChangeText(o) ==
    /\ \E v \in TextValues \cup {Undefined} :
            /\ v # settings[o].text
            /\ settings' = [settings EXCEPT ![o].text = v]
    /\ calls' = <<>>
    /\ since' = "other"
    /\ lastStep' = "change"
    /\ UNCHANGED <<registry, currentListeners, live, threw, lastResolved, otherVars>>

\* a sensor device appears, disappears or changes its interfaces
RegistryChange(d) ==
    /\ \E dev \in {NoDevice} \cup {Sensor(d, ifs) : ifs \in InterfaceSets(d)} :
            /\ dev # registry[d]
            /\ registry' = [registry EXCEPT ![d] = dev]
    /\ calls' = <<>>
    /\ since' = "other"
    /\ lastStep' = "change"
    /\ UNCHANGED <<settings, currentListeners, live, threw, lastResolved, otherVars>>

\* the data of the events the devices deliver
EventData ==
    [ Thermometer |-> {Num(22000)},
      HumiditySensor |-> {Num(41000)},
      ObjectDetection |->
          {ObjectsDetected(<<[className |-> "face", label |-> Str(<<"Alice">>)]>>)} ]

PassAfter(changed) ==
    CASE changed = "none" -> "pass/none"
      [] changed = "format" -> "pass/format"
      [] OTHER -> "pass/other"

\* what a call of listenersIntevalFn does to the map and its collaborators
Reconciled(overlayIds) ==
    LET st == listenersIntevalFn(overlayIds, settings, registry, currentListeners,
                                 live, lastResolved)
    IN  /\ currentListeners' = st.listeners
        /\ live' = st.live
        /\ calls' = st.calls
        /\ threw' = st.threw
        /\ lastResolved' = st.resolved
        /\ since' = "none"
        /\ lastStep' = PassAfter(since)
        /\ UNCHANGED <<settings, registry, fmtVars, settingsView, inFlight>>

\* one reconciliation pass (the timer tick, or the eager call)
Pass(overlayIds) == Reconciled(overlayIds) /\ UNCHANGED logged

\* one reconciliation pass, its "not found" log lines kept
PassLogged(overlayIds) ==
    /\ Reconciled(overlayIds)
    /\ logged' = [o \in AllIds |->
                      IF o \in Range(overlayIds)
                      THEN NotFoundLog(getOverlay(settings, o), registry)
                      ELSE <<>>]

\* a device delivers an event to a registered listener (lines 207-216)
DeviceEvent(h) ==
    /\ registry[h.device].present
    /\ h.iface \in registry[h.device].interfaces
    /\ \E data \in EventData[h.iface] :
            calls' = <<UpdateCall(h.overlayId, h.listenerType, data, FALSE)>>
    /\ lastStep' = "event"
    /\ UNCHANGED <<settings, registry, currentListeners, live, threw, since,
                   lastResolved, otherVars>>

\* the passes and the callbacks while the user edits the overlays' type, device
\* and text and the devices come and go
Next ==
    \/ \E o \in Range(OverlayIds) : ChangeBinding(o)
    \/ \E o \in Range(OverlayIds) : ChangeText(o)
    \/ \E d \in DeviceIds : RegistryChange(d)
    \/ Pass(OverlayIds)
    \/ \E h \in live : DeviceEvent(h)

Spec == Init /\ [][Next]_vars

\* the passes while the user also edits the overlays' regex and maxDecimals
NextTemplate ==
    \/ \E o \in Range(OverlayIds) : ChangeBinding(o)
    \/ \E o \in Range(OverlayIds) : ChangeFormat(o)
    \/ \E d \in DeviceIds : RegistryChange(d)
    \/ Pass(OverlayIds)

SpecTemplate == Init /\ [][NextTemplate]_vars

\* a device emits an event for a registered listener; the callback is yet to run
Emit(h) ==
    /\ inFlight = {}
    /\ registry[h.device].present
    /\ h.iface \in registry[h.device].interfaces
    /\ \E data \in EventData[h.iface] :
            inFlight' = {[handle |-> h, data |-> data]}
    /\ calls' = <<>>
    /\ lastStep' = "emit"
    /\ UNCHANGED <<settings, registry, currentListeners, live, threw, since,
                   lastResolved, fmtVars, settingsView, logged>>

\* the callback of an emitted event runs (lines 207-216), whether or not its
\* listener is still registered
Deliver(e) ==
    /\ inFlight' = inFlight \ {e}
    /\ calls' = <<UpdateCall(e.handle.overlayId, e.handle.listenerType, e.data, FALSE)>>
    /\ lastStep' = "event"
    /\ UNCHANGED <<settings, registry, currentListeners, live, threw, since,
                   lastResolved, fmtVars, settingsView, logged>>

\* the passes while the user edits the overlay and the events of the devices
\* are delivered some time after they were emitted
NextCallbacks ==
    \/ \E o \in Range(OverlayIds) : ChangeBinding(o)
    \/ \E o \in Range(OverlayIds) : ChangeText(o)
    \/ RegistryChange(DeviceName(2))
    \/ Pass(OverlayIds)
    \/ \E h \in live : Emit(h)
    \/ \E e \in inFlight : Deliver(e)

SpecCallbacks == Init /\ [][NextCallbacks]_vars

\* the overlay id lists a pass may be called with
PassLists == {<<"1">>, <<"1", "2">>, <<"2", "1">>}

\* the device the id prop names (the camera) leaves or enters the registry
HostChange ==
    /\ registry' = [registry EXCEPT ![CameraId] =
                        IF registry[CameraId].present THEN NoDevice ELSE Camera]
    /\ calls' = <<>>
    /\ since' = "other"
    /\ lastStep' = "change"
    /\ UNCHANGED <<settings, currentListeners, live, threw, lastResolved, otherVars>>

\* two Text overlays, both with the second sensor stored as their device
InitSlots ==
    /\ settings = [o \in AllIds |-> [NoSettings EXCEPT !.type = "Text",
                                                       !.device = DeviceName(2)]]
    /\ InitMap
    /\ registry = [d \in DeviceIds \cup {CameraId} |->
                      IF d = CameraId THEN Camera ELSE NoDevice]
    /\ fmtInput = NoFmtInput
    /\ fmtResult = NotRun

\* the user changes the type of an overlay
ChangeType(o) ==
    /\ \E v \in OverlayTypes :
            /\ v # settings[o].type
            /\ settings' = [settings EXCEPT ![o].type = v]
    /\ calls' = <<>>
    /\ since' = "other"
    /\ lastStep' = "change"
    /\ UNCHANGED <<registry, currentListeners, live, threw, lastResolved, otherVars>>

\* the passes over two overlays, called with any list of them, while the user
\* changes their types, the second sensor and the camera come and go, and the
\* devices deliver events
NextSlots ==
    \/ \E o \in AllIds : ChangeType(o)
    \/ RegistryChange(DeviceName(2))
    \/ HostChange
    \/ \E overlayIds \in PassLists : Pass(overlayIds)
    \/ \E h \in live : DeviceEvent(h)

SpecSlots == InitSlots /\ [][NextSlots]_vars

\* the passes, their "not found" log lines kept, while the devices come and go
NextHealing ==
    \/ \E o \in Range(OverlayIds) : ChangeBinding(o)
    \/ \E d \in DeviceIds : RegistryChange(d)
    \/ PassLogged(OverlayIds)

SpecHealing == Init /\ [][NextHealing]_vars

----------------------------------------------------------------------------
(* parseOverlayData on its own: every call over a bounded set of arguments *)

\* the largest maxDecimals tried
MaxDigits == 2

FormatData ==
    { Undefined, Num(21456), Num(0), Num(-1500), Str(<<"abc">>), NumStr(21456),
      NoDetections, ObjectsDetected(<<>>),
      ObjectsDetected(<<[className |-> "face", label |-> Str(<<"Alice">>)]>>),
      ObjectsDetected(<<[className |-> "person", label |-> Str(<<"Bob">>)]>>),
      ObjectsDetected(<<[className |-> "person", label |-> Str(<<"Bob">>)],
                        [className |-> "face", label |-> Str(<<"Alice">>)],
                        [className |-> "face", label |-> Str(<<"Carol">>)]>>),
      ObjectsDetected(<<[className |-> "face", label |-> Undefined],
                        [className |-> "face", label |-> Str(<<"Alice">>)]>>),
      ObjectsDetected(<<[className |-> "face", label |-> Str(<<>>)]>>) }

FormatOverlays ==
    [ device : DeviceIds \cup {Undef},
      type : OverlayTypes,
      regex : { Undefined, Str(<<>>), Str(<<"${value}">>), Str(<<"${value}", "${unit}">>),
                Str(<<"${value}", " ", "${unit}">>), Str(<<"T: ", "${value}", "${value}">>) },
      text : {Undefined, Str(<<"Hello">>)},
      maxDecimals : {Undefined, Num(-1000)} \cup {Num(1000 * k) : k \in 0..MaxDigits} ]

FormatInputs ==
    [ listenerType : ListenerTypes \cup {Undef}, data : FormatData,
      overlay : FormatOverlays ]

InitFormat ==
    /\ InitReconciler
    /\ registry = [d \in DeviceIds \cup {CameraId} |->
                      CASE d = CameraId -> Camera
                        [] d = DeviceName(1) -> Sensor(d, {"Thermometer", "HumiditySensor"})
                        [] OTHER -> NoDevice]
    /\ fmtInput \in FormatInputs
    /\ fmtResult = NotRun

Format ==
    /\ ~fmtResult.ran
    /\ LET res == parseOverlayData(fmtInput.listenerType, fmtInput.data,
                                   fmtInput.overlay, registry)
       IN  fmtResult' = [threw |-> res.threw, text |-> res.text, ran |-> TRUE]
    /\ UNCHANGED <<settings, registry, currentListeners, live, calls, threw, since,
                   lastStep, lastResolved, fmtInput, settingsView, inFlight, logged>>

NextFormat == Format

SpecFormat == InitFormat /\ [][NextFormat]_vars

----------------------------------------------------------------------------
(* getOverlaySettings on its own: the settings page of a stored snapshot   *)

\* what the storage may hold for an overlay
StoredSlots ==
    [ type : OverlayTypes \cup {Undef},
      device : {Undef, DeviceName(1)},
      text : {Undefined, Str(<<"Hello">>)},
      regex : {Undefined, Str(<<>>), Str(<<"${value}">>)},
      maxDecimals : {Undefined, Num(0), Num(2000)} ]

\* the overlay id lists the settings page is built for
ViewLists == {<<>>, <<"1">>, <<"2">>, <<"1", "2">>, <<"2", "1">>}

InitSettings ==
    /\ settings \in [AllIds -> StoredSlots]
    /\ settings["2"].device = Undef
    /\ settings["2"].regex = Undefined
    /\ settings["2"].maxDecimals = Undefined
    /\ InitMap
    /\ registry = [d \in DeviceIds \cup {CameraId} |->
                      IF d = CameraId THEN Camera ELSE NoDevice]
    /\ fmtInput = NoFmtInput
    /\ fmtResult = NotRun

\* the settings page is built (getMixinSettings calls getOverlaySettings)
GetSettings(overlayIds) ==
    /\ settingsView' = [ran |-> TRUE,
                        again |-> settingsView.ran /\ settingsView.overlayIds = overlayIds,
                        overlayIds |-> overlayIds,
                        settings |-> getOverlaySettings(settings, overlayIds)]
    /\ UNCHANGED <<settings, registry, currentListeners, live, calls, threw, since,
                   lastStep, lastResolved, fmtVars, inFlight, logged>>

NextSettings == \E overlayIds \in ViewLists : GetSettings(overlayIds)

SpecSettings == InitSettings /\ [][NextSettings]_vars

----------------------------------------------------------------------------
(* Properties of the reconciliation pass                                   *)

AfterPass == lastStep \in {"pass/none", "pass/format", "pass/other"}

\* what the overlay asks for in the current settings and registry
Desired(o) == ResolveListener(getOverlay(settings, o), registry)

\* the positions in cs of the calls of operation op made for overlay o
CallsFor(cs, o, op) == {i \in DOMAIN cs : cs[i].op = op /\ cs[i].overlayId = o}

\* the listen and removeListener calls made for overlay o, in order
ListenerCalls(cs, o) ==
    LET ForOverlay(c) == c.overlayId = o /\ c.op \in {"listen", "removeListener"}
    IN  SelectSeq(cs, ForOverlay)

\* the overlay has a map entry whose listener is still registered
HoldsLive(o) ==
    currentListeners[o].defined /\ currentListeners[o].listener \in live

\* C1: a pass that runs with the settings and the registry as the previous pass
\* left them makes no listen call and no removeListener call.
C1_SecondPassIsQuiet ==
    lastStep = "pass/none" =>
        \A i \in DOMAIN calls : calls[i].op \notin {"listen", "removeListener"}

\* C2: after a pass, every overlay that asks for a listener has a registered
\* listener of that type on the device it asks for.
C2_ConvergedAfterPass ==
    AfterPass =>
        \A o \in Range(OverlayIds) :
            Desired(o).listenerType # Undef =>
                /\ HoldsLive(o)
                /\ currentListeners[o].listenerType = Desired(o).listenerType
                /\ currentListeners[o].listener.listenerType = Desired(o).listenerType
                /\ currentListeners[o].listener.device = Desired(o).deviceId

\* C3: for a Device overlay, a pass registers a new listener exactly when it
\* resolves a listener type and that type or the device differs from what the
\* previous pass resolved for that overlay.
C3_RecreateIffResolutionDiffers ==
    [][Pass(OverlayIds) =>
          \A o \in Range(OverlayIds) :
              getOverlay(settings, o).type = "Device" =>
                  (CallsFor(calls', o, "listen") # {} <=>
                      /\ lastResolved'[o].listenerType # Undef
                      /\ lastResolved'[o] # lastResolved[o])]_vars

\* C4: a pass that runs after only the regex or maxDecimals settings changed
\* makes no listen and no removeListener call for a Device or FaceDetection
\* overlay that holds a registered listener, and leaves its map entry as it was.
C4_FormatChangeKeepsListener ==
    [][(Pass(OverlayIds) /\ since = "format") =>
          \A o \in Range(OverlayIds) :
              (HoldsLive(o) /\ getOverlay(settings, o).type \in {"Device", "FaceDetection"})
                  => /\ currentListeners'[o] = currentListeners[o]
                     /\ ListenerCalls(calls', o) = <<>>]_vars

C4_Witness ==
    /\ lastStep = "pass/format"
    /\ \E o \in Range(OverlayIds) :
          /\ HoldsLive(o)
          /\ getOverlay(settings, o).type = "Device"
          /\ settings[o].regex # Undefined
          /\ settings[o].maxDecimals # Undefined
    /\ calls = <<>>

\* C5: when a Device overlay whose listener is registered on one thermometer is
\* bound to another thermometer, the next pass makes exactly one removeListener
\* call, on the old listener, and then exactly one listen call, on the new device.
C5_ReleaseThenSubscribe ==
    [][Pass(OverlayIds) =>
          \A o \in Range(OverlayIds) : \A a, b \in DeviceIds :
              ( /\ a # b
                /\ HoldsLive(o)
                /\ currentListeners[o].listenerType = "Temperature"
                /\ currentListeners[o].device = a
                /\ currentListeners[o].listener.device = a
                /\ getOverlay(settings, o).type = "Device"
                /\ getOverlay(settings, o).device = b
                /\ "Thermometer" \in getDeviceById(registry, a).interfaces
                /\ "Thermometer" \in getDeviceById(registry, b).interfaces )
              => /\ Len(ListenerCalls(calls', o)) = 2
                 /\ ListenerCalls(calls', o)[1] =
                        RemoveListenerCall(o, currentListeners[o].listener)
                 /\ ListenerCalls(calls', o)[2].op = "listen"
                 /\ ListenerCalls(calls', o)[2].handle.device = b
                 /\ ListenerCalls(calls', o)[2].handle.iface = "Thermometer"
                 /\ currentListeners[o].listener \notin live'
                 /\ ListenerCalls(calls', o)[2].handle \in live']_vars

C5_Witness ==
    /\ AfterPass
    /\ \E o \in Range(OverlayIds) :
          /\ Len(ListenerCalls(calls, o)) = 2
          /\ ListenerCalls(calls, o)[1].op = "removeListener"
          /\ ListenerCalls(calls, o)[1].handle.device = DeviceName(1)
          /\ ListenerCalls(calls, o)[1].handle.iface = "Thermometer"
          /\ ListenerCalls(calls, o)[2].op = "listen"
          /\ ListenerCalls(calls, o)[2].handle.device = DeviceName(2)
          /\ currentListeners[o].listener = ListenerCalls(calls, o)[2].handle

\* C6: a pass that registers a Temperature (Humidity) listener for an overlay
\* makes one listen call for the overlay, on the device it asks for, and one
\* onUpdateFn call for it, carrying the device's current temperature (humidity);
\* a pass that registers a Face listener makes no onUpdateFn call for the overlay.
C6_CurrentValuePushed ==
    AfterPass =>
        \A i \in DOMAIN calls :
            calls[i].op = "listen" =>
                LET o == calls[i].overlayId
                    h == calls[i].handle
                    pushes == CallsFor(calls, o, "onUpdateFn")
                IN  /\ CallsFor(calls, o, "listen") = {i}
                    /\ h.device = Desired(o).deviceId
                    /\ h.listenerType \in {"Temperature", "Humidity"} =>
                          /\ Cardinality(pushes) = 1
                          /\ \A j \in pushes :
                                /\ calls[j].listenerType = h.listenerType
                                /\ calls[j].noLog = FALSE
                                /\ calls[j].data =
                                      IF h.listenerType = "Temperature"
                                      THEN registry[h.device].temperature
                                      ELSE registry[h.device].humidity
                    /\ h.listenerType = "Face" => pushes = {}

C6_Witness ==
    /\ AfterPass
    /\ \E o \in Range(OverlayIds) :
          /\ settings[o].text = Str(<<"Hello">>)
          /\ Len(calls) = 2
          /\ calls[1].op = "listen"
          /\ calls[1].handle.device = DeviceName(1)
          /\ calls[1].handle.iface = "Thermometer"
          /\ calls[2] = UpdateCall(o, "Temperature", Num(21456), FALSE)

\* C7: a Device overlay whose device exposes both Thermometer and HumiditySensor
\* resolves to Temperature and is listened to on Thermometer; it resolves to
\* Humidity only when the device exposes HumiditySensor and not Thermometer, and
\* to no listener when the device exposes neither.
C7_TemperatureFirst ==
    /\ \A o \in Range(OverlayIds) :
          LET overlay == getOverlay(settings, o)
              dev == getDeviceById(registry, overlay.device)
          IN  (overlay.type = "Device" /\ dev.present) =>
                  /\ "Thermometer" \in dev.interfaces =>
                        /\ Desired(o).listenerType = "Temperature"
                        /\ Desired(o).listenInterface = "Thermometer"
                  /\ Desired(o).listenerType = "Humidity" <=>
                        ( "HumiditySensor" \in dev.interfaces
                          /\ "Thermometer" \notin dev.interfaces )
                  /\ dev.interfaces \cap {"Thermometer", "HumiditySensor"} = {} =>
                        Desired(o).listenerType = Undef
    /\ AfterPass =>
          \A i \in DOMAIN calls :
              (calls[i].op = "listen" /\ calls[i].handle.device \in DeviceIds) =>
                  IF "Thermometer" \in registry[calls[i].handle.device].interfaces
                  THEN /\ calls[i].handle.iface = "Thermometer"
                       /\ calls[i].handle.listenerType = "Temperature"
                  ELSE /\ calls[i].handle.iface = "HumiditySensor"
                       /\ calls[i].handle.listenerType = "Humidity"

C7_Witness ==
    /\ AfterPass
    /\ \E i \in DOMAIN calls :
          /\ calls[i].op = "listen"
          /\ calls[i].handle.device = DeviceName(1)
          /\ registry[DeviceName(1)].interfaces = {"Thermometer", "HumiditySensor"}
          /\ calls[i].handle.iface = "Thermometer"

\* C8: a pass does not throw, and for a Device overlay whose device id is not in
\* the registry (or is undefined) it resolves no listener type and makes no
\* listen call.
C8_MissingDeviceSkipped ==
    AfterPass =>
        /\ ~threw
        /\ \A o \in Range(OverlayIds) :
              ( /\ getOverlay(settings, o).type = "Device"
                /\ ~getDeviceById(registry, getOverlay(settings, o).device).present )
              => /\ lastResolved[o].listenerType = Undef
                 /\ CallsFor(calls, o, "listen") = {}

C8_Witness ==
    /\ AfterPass
    /\ ~threw
    /\ \E o \in Range(OverlayIds) :
          /\ settings[o].type = "Device"
          /\ settings[o].device = DeviceName(2)
          /\ ~registry[DeviceName(2)].present
          /\ HoldsLive(o)
          /\ calls = <<>>

\* C9: getOverlay returns type Text when the type key is missing, the template
\* "${value} ${unit}" when the regex key is missing and 1 when the maxDecimals
\* key is missing.
C9_Defaults ==
    \A o \in AllIds :
        LET overlay == getOverlay(settings, o)
        IN  /\ settings[o].type = Undef => overlay.type = "Text"
            /\ settings[o].regex = Undefined =>
                  overlay.regex = Str(<<"${value}", " ", "${unit}">>)
            /\ settings[o].maxDecimals = Undefined => overlay.maxDecimals = Num(1000)

\* the calls made for overlay o, in order
CallsOf(cs, o) ==
    LET ForOverlay(c) == c.overlayId = o
    IN  SelectSeq(cs, ForOverlay)

\* the registered listeners of overlay o
LiveOf(registered, o) == {h \in registered : h.overlayId = o}

\* C12: after a pass that resolves no listener type for an overlay (a Text
\* overlay, or a Device overlay whose device is not found or has neither
\* interface), the overlay has no map entry and no registered listener.
C12_ReleasedAndClearedOnNone ==
    (AfterPass /\ ~threw) =>
        \A o \in Range(OverlayIds) :
            lastResolved[o].listenerType = Undef =>
                /\ ~currentListeners[o].defined
                /\ LiveOf(live, o) = {}

\* C13: a pass that finds a Text overlay holding a registered listener removes
\* that listener, so that the overlay has no registered listener afterwards,
\* and then calls onUpdateFn for the overlay with the overlay's text and noLog.
C13_RevertToText ==
    [][Pass(OverlayIds) =>
          \A o \in Range(OverlayIds) :
              (HoldsLive(o) /\ getOverlay(settings, o).type = "Text") =>
                  /\ LiveOf(live', o) = {}
                  /\ CallsOf(calls', o) =
                        << RemoveListenerCall(o, currentListeners[o].listener),
                           UpdateCall(o, Undef, getOverlay(settings, o).text, TRUE) >>]_vars

C13_Witness ==
    /\ AfterPass
    /\ \E o \in Range(OverlayIds) :
          /\ settings[o].type = "Text"
          /\ currentListeners[o].defined
          /\ currentListeners[o].listenerType = "Temperature"
          /\ LiveOf(live, o) = {}
          /\ calls = << RemoveListenerCall(o, currentListeners[o].listener),
                        UpdateCall(o, Undef, Str(<<"Hello">>), TRUE) >>

\* C16: when the previous pass logged the device of a Device overlay as not
\* found and the device is now in the registry with Thermometer or
\* HumiditySensor, the settings still binding it, the pass leaves the overlay
\* with a registered listener on that device.  (A pass that does not is
\* repeated by every later one: it changes nothing a pass reads.)
C16_SelfHealing ==
    [][PassLogged(OverlayIds) =>
          \A o \in Range(OverlayIds) :
              LET overlay == getOverlay(settings, o)
              IN  ( /\ overlay.type = "Device"
                    /\ logged[o] = <<overlay.device>>
                    /\ Desired(o).listenerType # Undef )
                  => /\ currentListeners'[o].defined
                     /\ currentListeners'[o].listener \in live'
                     /\ currentListeners'[o].listener.device = overlay.device
                     /\ currentListeners'[o].listener.listenerType =
                            Desired(o).listenerType]_vars

\* the push a pass makes for a Text overlay
TextPush(o) == UpdateCall(o, Undef, getOverlay(settings, o).text, TRUE)

\* C18 as claimed: a pass makes no call at all for a listed overlay that
\* resolves no listener type and has no map entry.
C18_NoOpWhenNothingBound ==
    [][\A overlayIds \in PassLists :
          (AfterPass' /\ Pass(overlayIds)) =>
              \A o \in Range(overlayIds) :
                  (Desired(o).listenerType = Undef /\ ~currentListeners[o].defined) =>
                      /\ CallsOf(calls', o) = <<>>
                      /\ currentListeners'[o] = currentListeners[o]]_vars

\* C18 as amended: for a listed overlay that resolves no listener type and has
\* no map entry, a pass makes no listen and no removeListener call and leaves
\* the overlay without entry; for a Device overlay it makes no onUpdateFn call
\* either; for a Text overlay it makes one, with the text and noLog, and nothing
\* else (a pass that an exception ends may not get as far as that call).
C18_NoOpUnlessText ==
    [][\A overlayIds \in PassLists :
          (AfterPass' /\ Pass(overlayIds)) =>
              \A o \in Range(overlayIds) :
                  (Desired(o).listenerType = Undef /\ ~currentListeners[o].defined) =>
                      /\ currentListeners'[o] = currentListeners[o]
                      /\ LiveOf(live', o) = LiveOf(live, o)
                      /\ IF getOverlay(settings, o).type = "Text"
                         THEN \/ CallsOf(calls', o) = <<TextPush(o)>>
                              \/ threw' /\ CallsOf(calls', o) = <<>>
                         ELSE CallsOf(calls', o) = <<>>]_vars

C18_Witness ==
    /\ AfterPass
    /\ ~threw
    /\ settings["1"].type = "Device"
    /\ ~getDeviceById(registry, settings["1"].device).present
    /\ ~currentListeners["1"].defined
    /\ settings["2"].type = "Text"
    /\ ~currentListeners["2"].defined
    /\ calls = <<TextPush("2")>>

\* C14: every registered listener is the one the map entry of its overlay
\* holds, so that an overlay never has two registered listeners and no
\* registered listener is lost.
C14_OneLivePerSlot ==
    \A o \in AllIds :
        /\ Cardinality(LiveOf(live, o)) <= 1
        /\ \A h \in LiveOf(live, o) :
              currentListeners[o].defined /\ currentListeners[o].listener = h

C14_Witness ==
    /\ AfterPass
    /\ HoldsLive("1")
    /\ HoldsLive("2")
    /\ Cardinality(live) = 2
    /\ \E i \in DOMAIN calls : calls[i].op = "removeListener"
    /\ \E i \in DOMAIN calls : calls[i].op = "listen"

\* C17: the callback of an event that runs after its listener was removed makes
\* no onUpdateFn call for the overlay.
C17_StaleCallbackDropped ==
    [][\A e \in inFlight :
          (Deliver(e) /\ e.handle \notin live) =>
              CallsFor(calls', e.handle.overlayId, "onUpdateFn") = {}]_vars

\* calls with the identity of their listener left out
Anon(cs) == [i \in DOMAIN cs |-> [cs[i] EXCEPT !.handle.id = 0]]

\* what a pass over overlay o alone would do from the current state
Alone(o) ==
    listenersIntevalFn(<<o>>, settings, registry, currentListeners, live, lastResolved)

\* C15: no pass ends by an exception, and a pass makes for every listed overlay
\* whose own reconciliation does not fail the calls of that reconciliation,
\* whatever happens to the other overlays of the list.
C15_FailureIsolated ==
    [][\A overlayIds \in PassLists :
          (AfterPass' /\ Pass(overlayIds)) =>
              /\ ~threw'
              /\ \A o \in Range(overlayIds) :
                    ~Alone(o).threw =>
                        Anon(CallsOf(calls', o)) = Anon(CallsOf(Alone(o).calls, o))]_vars

\* C20: a pass leaves the map entry and the registered listener of every
\* overlay outside its list as they were and makes no call for it; for every
\* listed overlay the entry, the registered listeners and the calls are those
\* of a pass over that overlay alone, whatever the order of the list and the
\* settings of the other overlays.
C20_FrameAndIndependence ==
    [][\A overlayIds \in PassLists :
          (AfterPass' /\ Pass(overlayIds)) =>
              /\ \A o \in AllIds \ Range(overlayIds) :
                    /\ currentListeners'[o] = currentListeners[o]
                    /\ LiveOf(live', o) = LiveOf(live, o)
                    /\ CallsOf(calls', o) = <<>>
              /\ \A o \in Range(overlayIds) :
                    /\ [currentListeners'[o] EXCEPT !.listener.id = 0] =
                          [Alone(o).listeners[o] EXCEPT !.listener.id = 0]
                    /\ {[h EXCEPT !.id = 0] : h \in LiveOf(live', o)} =
                          {[h EXCEPT !.id = 0] : h \in LiveOf(Alone(o).live, o)}
                    /\ Anon(CallsOf(calls', o)) = Anon(CallsOf(Alone(o).calls, o))]_vars

----------------------------------------------------------------------------
(* Properties of parseOverlayData                                          *)

RECURSIVE SubstFirst(_, _, _)
\* s with its first piece equal to p replaced by the pieces r
SubstFirst(s, p, r) ==
    IF s = <<>> THEN <<>>
    ELSE IF Head(s) = p THEN r \o Tail(s)
    ELSE <<Head(s)>> \o SubstFirst(Tail(s), p, r)

\* the face detections of an event, in order
Faces(data) ==
    LET IsFace(det) == det.className = "face"
    IN  IF data.t = "object" /\ data.hasDetections
        THEN SelectSeq(data.detections, IsFace) ELSE <<>>

\* C10: for listener type Face, parseOverlayData takes the label of the first
\* detection of class "face" as the value and returns the overlay's regex with
\* "${value}" replaced by it (and "${unit}" by nothing); when the event carries
\* no face detection, or the first one carries no label, it returns the
\* overlay's text unchanged.
C10_FaceFormatting ==
    (fmtResult.ran /\ fmtInput.listenerType = "Face") =>
        LET faces == Faces(fmtInput.data)
            label == IF faces = <<>> THEN Undefined ELSE Head(faces).label
            named == label.t = "string" /\ label.s # <<>>
            overlay == fmtInput.overlay
        IN  /\ (named /\ overlay.regex.t = "string") =>
                  /\ ~fmtResult.threw
                  /\ fmtResult.text =
                        Str(SubstFirst(SubstFirst(overlay.regex.s, "${value}", label.s),
                                       "${unit}", <<>>))
            /\ ~named =>
                  /\ ~fmtResult.threw
                  /\ fmtResult.text = overlay.text
            /\ ( /\ fmtInput.data = ObjectsDetected(<<[className |-> "face",
                                                      label |-> Str(<<"Alice">>)]>>)
                 /\ overlay.regex = Str(<<"${value}">>) )
               => fmtResult.text = Str(<<"Alice">>)

C10_Witness ==
    /\ fmtResult.ran
    /\ fmtInput.listenerType = "Face"
    /\ Len(Faces(fmtInput.data)) = 2
    /\ fmtInput.overlay.regex = Str(<<"T: ", "${value}", "${value}">>)
    /\ fmtInput.overlay.text = Str(<<"Hello">>)
    /\ fmtResult.text = Str(<<"T: ", "Alice", "${value}">>)

\* C19: parseOverlayData never throws, and for listener type Temperature or
\* Humidity a data value that is undefined or that Number() turns into NaN is
\* shown as 0 with maxDecimals fractional digits in place of "${value}".
C19_FormatterNeverRaises ==
    fmtResult.ran =>
        /\ ~fmtResult.threw
        /\ ( /\ fmtInput.listenerType \in {"Temperature", "Humidity"}
             /\ ToNumber(IF fmtInput.data.t = "undefined" THEN Num(0)
                         ELSE fmtInput.data).t = "NaN"
                \/ fmtInput.data.t = "undefined"
             /\ fmtInput.overlay.regex.t = "string" )
           => LET zero == toFixed(Num(0), fmtInput.overlay.maxDecimals).value.s
                  unit == IF fmtInput.listenerType = "Humidity" THEN <<"%">>
                          ELSE OrEmpty(getDeviceById(registry,
                                           fmtInput.overlay.device).temperatureUnit)
              IN  fmtResult.text =
                      Str(SubstFirst(SubstFirst(fmtInput.overlay.regex.s,
                                                "${value}", zero),
                                     "${unit}", unit))

----------------------------------------------------------------------------
(* Properties of getOverlaySettings                                        *)

\* the fields of the settings a list holds for overlay o, in order
FieldsOf(list, o) ==
    LET ForOverlay(setting) == setting.key[2] = o
        own == SelectSeq(list, ForOverlay)
    IN  [i \in DOMAIN own |-> own[i].key[3]]

\* the fields the settings page shows besides the type selector
FieldsOfKind(kind) ==
    CASE kind = "Text" -> {"text"}
      [] kind = "Device" -> {"device", "regex", "maxDecimals"}
      [] kind = "FaceDetection" -> {"regex"}

\* C11: for every overlay id of the list, getOverlaySettings emits one type
\* selector, and besides it exactly the text field for a Text overlay (also when
\* no type is stored), exactly device, regex and maxDecimals for a Device
\* overlay and exactly regex for a FaceDetection overlay; it emits nothing for
\* other ids, leaves the storage as it was, and a second call for the same list
\* returns the same settings.
C11_SettingsFieldSets ==
    [][\A overlayIds \in ViewLists :
          GetSettings(overlayIds) =>
              /\ settings' = settings
              /\ \A i \in DOMAIN settingsView'.settings :
                    settingsView'.settings[i].key[2] \in Range(overlayIds)
              /\ \A o \in Range(overlayIds) :
                    LET fields == FieldsOf(settingsView'.settings, o)
                        kind == IF settings[o].type = Undef THEN "Text"
                                ELSE settings[o].type
                    IN  /\ fields # <<>>
                        /\ fields[1] = "type"
                        /\ Range(Tail(fields)) = FieldsOfKind(kind)
                        /\ Len(fields) = 1 + Cardinality(FieldsOfKind(kind))
              /\ settingsView'.again => settingsView'.settings = settingsView.settings]_vars

C11_Witness ==
    /\ settingsView.again
    /\ settingsView.overlayIds = <<"2", "1">>
    /\ settings["1"].type = "Device"
    /\ settings["2"].type = Undef
    /\ FieldsOf(settingsView.settings, "1") = <<"type", "device", "regex", "maxDecimals">>
    /\ FieldsOf(settingsView.settings, "2") = <<"type", "text">>

====
